---- MODULE Spec2Model ----
(***************************************************************************)
(* Device-session executor of kvtm-auto.                                   *)
(*                                                                         *)
(* Two executors of the repository are modelled behind the same registry   *)
(* (service/database.py) and the same HTTP start handler (api/execute.py): *)
(*   Spec        the subprocess Executor (service/executor.py), the one    *)
(*               api/execute.py imports;                                   *)
(*   SpecRunner  the thread based ScriptRunner (service/script_runner.py). *)
(* Request handlers are `async def` without an await, so one handler runs  *)
(* at a time on the event loop; background tasks and workers interleave    *)
(* with them.  File persistence is taken to succeed.  Every operation is   *)
(* keyed by the device id; one device is followed.  The lines a            *)
(* ScriptRunner worker writes to the log sink are kept with its run.       *)
(***************************************************************************)
EXTENDS Integers, Sequences, FiniteSets, TLC

\* ---------------------------------------------------------------- bounds
\* Runs that exist at the same time (queued, alive or not yet cleaned up),
\* entries a device's log holds, and server restarts.
MaxProcs == 2
MaxLog == 2
MaxRestarts == 1
\* Worker threads of the ScriptRunner that exist at the same time, and the
\* entry point calls and log lines of one of its runs.
MaxThreads == 1
MaxTrace == 7
\* Lines the worker of a device writes to logs.json with write_script_log.
MaxLines == 3
\* Executions of the Flask ExecutionManager that exist at the same time.
MaxExecutions == 2
\* stream_screen threads that exist at the same time.
MaxStreams == 2
\* The largest max_attempts given to retry_on_error.
MaxAttempts == 3

\* ------------------------------------------------------ program constants
\* api/execute.py overwrites the caller's loop options; the delay of 1.0 s
\* is two sleep slices of 0.5 s.
HardcodedMaxLoops == 1000
HardcodedLoopDelay == 2
\* models/script.py: the defaults of the fields of GameOptions, the delays
\* in slices of 0.5 s, and the range that validate_max_loops accepts.
DefaultMaxLoops == 1000
DefaultLoopDelay == 2
DefaultGameLoadWait == 20
\* service/database.py: the entries kept of the log of a device.
LogLimit == 1000
LeastMaxLoops == 1
MostMaxLoops == 1000

\* ------------------------------------------------------------ value sets
DeviceIds == {"d1"}
GoodScripts == {"s1", "s2"}
BadScripts == {"missing"}
ScriptIds == GoodScripts \cup BadScripts
None == "none"
ProcIds == 1..MaxProcs
ThreadIds == 1..MaxThreads
NoProc == 0

VARIABLES devices, logs, server, boots, handler, response,
          running_scripts, procs,
          running_contexts, running_threads, threads,
          devices_file, logs_file, callers,
          manager_device, executions, stop_call,
          active_streams, stream_threads, stream_lock,
          retry

\* The state of the subprocess Executor and of the ScriptRunner.
executorVars == <<running_scripts, procs>>

runnerVars == <<running_contexts, running_threads, threads>>

\* devices.json and logs.json as the callers of the Database see them when
\* their loads and saves interleave, and the calls in progress.
storeVars == <<devices_file, logs_file, callers>>

\* The Flask server: the device of its DeviceManager, the executions of its
\* ExecutionManager and the stop_script call in progress.
\* The stream handlers of apis/stream_apis.py for one Socket.IO session.
\* retry: a call of a function wrapped by retry_on_error.
appVars == <<manager_device, executions, stop_call,
             active_streams, stream_threads, stream_lock, retry>>

vars == <<devices, logs, server, boots, handler, response,
          running_scripts, procs, running_contexts, running_threads, threads,
          devices_file, logs_file, callers,
          manager_device, executions, stop_call,
          active_streams, stream_threads, stream_lock, retry>>

\* ------------------------------------------------------------ data model
\* GameOptions: loop_delay and game_load_wait are counted in sleep slices
\* of 0.5 s; game_load_wait has its default where it is not given.
GameOptions(og, ml, ld) ==
    [open_game |-> og, max_loops |-> ml, loop_delay |-> ld,
     game_load_wait |-> DefaultGameLoadWait]

NoOptions == GameOptions(FALSE, 0, 0)

\* A record of devices.json; present = FALSE stands for "no record".
Device(status, script, opts) ==
    [present |-> TRUE, device_status |-> status, current_script |-> script,
     game_options |-> opts]

NoDevice ==
    [present |-> FALSE, device_status |-> "available", current_script |-> None,
     game_options |-> NoOptions]

\* ------------------------------------------------- registry (Database)
get_device(devs, d) == devs[d]

save_device(devs, d, rec) == [devs EXCEPT ![d] = rec]

set_device_script(devs, d, s, opts) ==
    IF get_device(devs, d).present
    THEN save_device(devs, d, Device("running", s, opts))
    ELSE devs

stop_device_script_unguarded(devs, d) ==
    save_device(devs, d, Device("available", None, NoOptions))

stop_device_script(devs, d) ==
    IF get_device(devs, d).present /\ get_device(devs, d).current_script # None
    THEN save_device(devs, d, Device("available", None, NoOptions))
    ELSE devs

\* A line of logs.json without its time stamp: the text, the script or the
\* loop numbers it carries.
LogEntry(kind, s, i, n) == [kind |-> kind, script |-> s, i |-> i, n |-> n]

\* write_log / write_script_log: the entry is appended to the device's list,
\* of which the last 1000 are kept.
keep_last(seq, n) ==
    IF Len(seq) > n THEN SubSeq(seq, Len(seq) - n + 1, Len(seq)) ELSE seq

write_log(lg, d, entry) ==
    [lg EXCEPT ![d] = keep_last(Append(@, entry), LogLimit)]

LogHasRoom(d) == Len(logs[d]) < MaxLog

\* ------------------------------------------------------- request inputs
\* game_options of a start request.
RequestOptions == {GameOptions(FALSE, 3, 0)}

\* The device as _load_device_states builds it from a saved state without
\* a status: offline until it is discovered, bound to nothing.
NoExecutionId == 0

LoadedDevice == [status |-> "offline", current_execution_id |-> NoExecutionId]

\* An execution: its subprocess, whether running_scripts holds its id, and
\* the place of its log-capture thread in _capture_logs.
ExecutionIds == 1..MaxExecutions

NoExecution == [state |-> "unused", listed |-> FALSE, capture |-> "none"]

\* ExecutionManager.stop_script in progress: its place, the execution it is
\* for and how it returned ("true", "raised" or "none").
NoStopCall == [pc |-> "idle", id |-> NoExecutionId, ret |-> "none"]

\* active_streams[session_id] of the one session: absent, or the entry with
\* its thread and its stop_flag.
StreamIds == 1..MaxStreams

NoStream == [present |-> FALSE, thread |-> 0, stop_flag |-> FALSE]

\* A stream_screen thread: its place in the loop, and whether a
\* stop_stream_for_session that stopped it has returned.
NoStreamThread == [state |-> "unused", pc |-> "none", stopped |-> FALSE]

\* A call of the wrapper of retry_on_error: its arguments, the attempt it
\* is at, the outcomes of the invocations of the function so far, the
\* sleeps it made and what it returned.
NoRetry ==
    [pc |-> "idle", max_attempts |-> 0, delay |-> 0, return_value |-> "None",
     attempt |-> 0, invoked |-> <<>>, slept |-> <<>>, result |-> "none"]

\* ---------------------------------------------------------------- Init
IdleHandler == [op |-> "idle", dev |-> None, proc |-> NoProc]

\* The outcome of the last request: the HTTP status, and what the executor
\* call made by the handler did ("true", "false", "raised", or "none").
NoResponse == [op |-> "none", dev |-> None, code |-> 0, ret |-> "none"]

Response(op, d, code, ret) == [op |-> op, dev |-> d, code |-> code, ret |-> ret]

\* A run of the subprocess Executor: queued (executor.run is a background
\* task that has not begun), alive, or exited; monitor says that the
\* _monitor_output call of the run has not yet returned.
NoProcRec ==
    [state |-> "unused", dev |-> None, script |-> None, opts |-> NoOptions,
     monitor |-> FALSE, term |-> FALSE]

\* A run of the ScriptRunner: the worker thread with its ScriptContext
\* (should_stop), its place in _execute_script_with_loops (pc, loop_index,
\* sleep_left in slices) and what it has done so far (trace: the entry
\* point invocations and the log lines it wrote, in order).
NoThread ==
    [state |-> "unused", dev |-> None, script |-> None, opts |-> NoOptions,
     pc |-> "none", loop_index |-> 0, should_stop |-> FALSE,
     sleep_left |-> 0, trace |-> <<>>]

\* The callers of the Database whose loads and saves interleave: the request
\* handler on the event loop and the worker (thread or child process) of
\* each device.
RegistryIds == {"d1", "d2"}

WorkerOf == [d \in RegistryIds |-> IF d = "d1" THEN "worker1" ELSE "worker2"]

Callers == {"handler"} \cup {WorkerOf[d] : d \in RegistryIds}

\* Database.__init__: devices.json starts as [], logs.json as {}.
NoDevices == [d \in RegistryIds |-> NoDevice]

NoLogs == [d \in RegistryIds |-> <<>>]

\* A call of a Database method in progress: the method (op) and its device,
\* the record get_device returned (device), the list _load_devices returned
\* (loaded), the Device objects still to be saved (todo), the connected
\* devices and the devices to remove of a refresh and, for a log write, the
\* loaded logs and the number of lines written so far (written).  An idle caller keeps the
\* method, the device and the result of its last call.
IdleCaller ==
    [pc |-> "idle", op |-> "none", dev |-> None, device |-> NoDevice,
     loaded |-> NoDevices, logs |-> NoLogs, todo |-> <<>>, connected |-> {},
     remove |-> {}, written |-> 0, ret |-> "none"]

Init ==
    /\ devices = [d \in DeviceIds |-> NoDevice]
    /\ logs = [d \in DeviceIds |-> <<>>]
    /\ server = "starting"
    /\ boots = 0
    /\ handler = IdleHandler
    /\ response = NoResponse
    /\ running_scripts = [d \in DeviceIds |-> NoProc]
    /\ procs = [p \in ProcIds |-> NoProcRec]
    /\ running_contexts = [d \in DeviceIds |-> NoProc]
    /\ running_threads = [d \in DeviceIds |-> NoProc]
    /\ threads = [t \in ThreadIds |-> NoThread]
    /\ devices_file = NoDevices
    /\ logs_file = NoLogs
    /\ callers = [c \in Callers |-> IdleCaller]
    /\ manager_device = LoadedDevice
    /\ executions = [e \in ExecutionIds |-> NoExecution]
    /\ stop_call = NoStopCall
    /\ active_streams = NoStream
    /\ stream_threads = [t \in StreamIds |-> NoStreamThread]
    /\ stream_lock = "free"
    /\ retry = NoRetry

\* A process object nothing refers to any more leaves the model.
Referenced(ps, handles, h, p) ==
    \/ ps[p].state \in {"queued", "alive"}
    \/ ps[p].monitor
    \/ \E d \in DeviceIds : handles[d] = p
    \/ h.op = "stop" /\ h.proc = p

Collect(ps, handles, h) ==
    [p \in ProcIds |->
       IF Referenced(ps, handles, h, p) THEN ps[p] ELSE NoProcRec]

FreeSlots == {p \in ProcIds : procs[p].state = "unused"}

NewSlot == CHOOSE p \in FreeSlots : \A q \in FreeSlots : p <= q

\* ------------------------------------------------------ server lifecycle
\* lifespan() up to its yield: logging only, the registry is not touched.
Lifespan ==
    /\ server = "starting"
    /\ server' = "up"
    /\ UNCHANGED <<devices, logs, boots, handler, response>>
    /\ UNCHANGED <<executorVars, runnerVars>>
    /\ UNCHANGED <<storeVars, appVars>>

\* The server process dies and is started again: devices.json and logs.json
\* are kept (Database.__init__ only creates missing files), the Executor's
\* dictionary, the pending background tasks and the child processes are gone.
Restart ==
    /\ server = "up"
    /\ boots < MaxRestarts
    /\ boots' = boots + 1
    /\ server' = "starting"
    /\ handler' = IdleHandler
    /\ response' = NoResponse
    /\ running_scripts' = [d \in DeviceIds |-> NoProc]
    /\ procs' = [p \in ProcIds |-> NoProcRec]
    /\ running_contexts' = [d \in DeviceIds |-> NoProc]
    /\ running_threads' = [d \in DeviceIds |-> NoProc]
    /\ threads' = [t \in ThreadIds |-> NoThread]
    /\ UNCHANGED <<devices, logs>>
    /\ UNCHANGED <<storeVars, appVars>>

Serving == server = "up" /\ handler.op = "idle"

\* ------------------------------------------------- GET /api/devices/
\* get_all_devices: connected devices are upserted (a record without
\* current_script is set available, one with current_script keeps its
\* status), records of devices that are not connected are removed, and so
\* are their logs.
RefreshedDevice(rec) ==
    IF rec.present
    THEN IF rec.current_script = None
         THEN [rec EXCEPT !.device_status = "available"]
         ELSE rec
    ELSE Device("available", None, NoOptions)

ApiGetAllDevices(connected) ==
    /\ Serving
    /\ devices' = [d \in DeviceIds |->
                     IF d \in connected THEN RefreshedDevice(devices[d])
                     ELSE NoDevice]
    /\ logs' = [d \in DeviceIds |-> IF d \in connected THEN logs[d] ELSE <<>>]
    /\ response' = Response("devices", None, 200, "none")
    /\ UNCHANGED <<server, boots, handler, executorVars, runnerVars>>
    /\ UNCHANGED <<storeVars, appVars>>

\* ------------------------------------------------- POST /api/execute/start
\* start_script for one device id: the caller's loop options are replaced
\* by the hardcoded ones, the registry is checked and bound, and
\* executor.run is queued as a background task.
EffectiveOptions(asked) ==
    [asked EXCEPT !.max_loops = HardcodedMaxLoops,
                  !.loop_delay = HardcodedLoopDelay]

StartAccepted(devs, d) ==
    /\ get_device(devs, d).present
    /\ get_device(devs, d).device_status = "available"
    /\ get_device(devs, d).current_script = None

QueuedRun(d, s, opts) ==
    [state |-> "queued", dev |-> d, script |-> s, opts |-> opts,
     monitor |-> FALSE, term |-> FALSE]

ApiStartScript(d, s, asked) ==
    /\ Serving
    /\ StartAccepted(devices, d) => FreeSlots # {}
    /\ IF StartAccepted(devices, d)
       THEN /\ devices' = set_device_script(devices, d, s,
                                            EffectiveOptions(asked))
            /\ procs' = [procs EXCEPT ![NewSlot] =
                            QueuedRun(d, s, EffectiveOptions(asked))]
            /\ response' = Response("start", d, 200, "none")
       ELSE /\ response' = Response("start", d, 400, "none")
            /\ UNCHANGED <<devices, procs>>
    /\ UNCHANGED <<logs, server, boots, handler, running_scripts, runnerVars>>
    /\ UNCHANGED <<storeVars, appVars>>

\* --------------------------------------- the body of a start request
\* game_options of the JSON body: a record of the fields that were given.
\* A body without game_options (the handler then takes GameOptions()) is
\* the record that gives no field.
NoGameOptions == [f \in {} |-> 0]

RequestBodies ==
    {NoGameOptions,
     [max_loops |-> 3],
     [max_loops |-> 0],
     [max_loops |-> 1001],
     [loop_delay |-> 0 - 1],
     [game_load_wait |-> 0 - 1],
     [open_game |-> TRUE, max_loops |-> 1, loop_delay |-> 0,
      game_load_wait |-> 4]}

Given(body, f) == f \in DOMAIN body

\* The field validators: TRUE where the value is returned, FALSE where
\* ValueError is raised.
validate_max_loops_unbounded(value) == value >= LeastMaxLoops

validate_max_loops(value) == value >= LeastMaxLoops /\ value <= MostMaxLoops

validate_delays(value) == value >= 0

\* Construction of GameOptions from the body: the validators run on the
\* fields that were given, the other fields take their defaults.
GameOptionsAccepts(body) ==
    /\ Given(body, "max_loops") => validate_max_loops(body.max_loops)
    /\ Given(body, "loop_delay") => validate_delays(body.loop_delay)
    /\ Given(body, "game_load_wait") => validate_delays(body.game_load_wait)

NewGameOptions(body) ==
    [open_game |-> IF Given(body, "open_game") THEN body.open_game ELSE FALSE,
     max_loops |-> IF Given(body, "max_loops") THEN body.max_loops
                   ELSE DefaultMaxLoops,
     loop_delay |-> IF Given(body, "loop_delay") THEN body.loop_delay
                    ELSE DefaultLoopDelay,
     game_load_wait |-> IF Given(body, "game_load_wait")
                        THEN body.game_load_wait
                        ELSE DefaultGameLoadWait]

\* POST /api/execute/start with its body: StartRequest is built before
\* start_script is entered, and a body whose game_options do not validate
\* is answered 422 without the handler being called.
PostStart(d, s, body) ==
    /\ Serving
    /\ IF GameOptionsAccepts(body)
       THEN ApiStartScript(d, s, NewGameOptions(body))
       ELSE /\ response' = Response("start", d, 422, "none")
            /\ UNCHANGED <<devices, logs, server, boots, handler,
                           executorVars, runnerVars>>
            /\ UNCHANGED <<storeVars, appVars>>

\* ------------------------------------------------- Executor (subprocess)
Alive(p) == p # NoProc /\ procs[p].state = "alive"

\* _cleanup_device: the handle recorded for the device is removed, whichever
\* process it refers to; the registry is not touched.
cleanup_device(handles, d) == [handles EXCEPT ![d] = NoProc]

\* is_running(d): true iff a handle is recorded and its process is alive.
is_running(handles, d) == Alive(handles[d])

\* The dictionary after is_running(d): a handle to a dead process is removed.
after_is_running(handles, d) ==
    IF handles[d] # NoProc /\ ~Alive(handles[d])
    THEN cleanup_device(handles, d)
    ELSE handles

\* script_manager.get_script_path: None when the script file does not exist.
get_script_path(s) == IF s \in GoodScripts THEN s ELSE None

\* Executor.run, as the background task of a start request.  With a run
\* already active it returns without a word; an unknown script raises
\* FileNotFoundError inside the background task; otherwise the subprocess is
\* started, its handle recorded and the task goes on in _monitor_output.
ExecutorRun(p) ==
    /\ server = "up"
    /\ procs[p].state = "queued"
    /\ LET d == procs[p].dev
           dropped == [procs EXCEPT ![p] = NoProcRec]
           started == [procs EXCEPT ![p].state = "alive", ![p].monitor = TRUE]
           recorded == [running_scripts EXCEPT ![d] = p]
       IN  IF is_running(running_scripts, d)
           THEN /\ procs' = dropped
                /\ UNCHANGED <<running_scripts, logs>>
           ELSE IF get_script_path(procs[p].script) = None
           THEN /\ running_scripts' = after_is_running(running_scripts, d)
                /\ procs' = Collect(dropped, running_scripts', handler)
                /\ UNCHANGED logs
           ELSE /\ LogHasRoom(d)
                /\ logs' = write_log(logs, d,
                                     LogEntry("Script started",
                                              procs[p].script, 0, 0))
                /\ running_scripts' = recorded
                /\ procs' = Collect(started, recorded, handler)
    /\ UNCHANGED <<devices, server, boots, handler, response, runnerVars>>
    /\ UNCHANGED <<storeVars, appVars>>

\* The child process ends: all loops done, a failed iteration (exit 1), or
\* the SIGTERM of a stop.  The exit status is read nowhere.
ProcessExit(p) ==
    /\ procs[p].state = "alive"
    /\ procs' = [procs EXCEPT ![p].state = "exited"]
    /\ UNCHANGED <<devices, logs, server, boots, handler, response,
                   running_scripts, runnerVars>>
    /\ UNCHANGED <<storeVars, appVars>>

\* _monitor_output after the end of the output: _cleanup_device.
MonitorOutputEnd(p) ==
    /\ procs[p].state = "exited"
    /\ procs[p].monitor
    /\ running_scripts' = cleanup_device(running_scripts, procs[p].dev)
    /\ procs' = Collect([procs EXCEPT ![p].monitor = FALSE],
                        running_scripts', handler)
    /\ UNCHANGED <<devices, logs, server, boots, handler, response,
                   runnerVars>>
    /\ UNCHANGED <<storeVars, appVars>>

\* ------------------------------------------------- POST /api/execute/stop
\* Executor.stop up to process.wait(timeout): the registry is unbound first;
\* without a handle, or with a dead process, stop returns True at once.
ExecutorStopBegin(d) ==
    /\ devices' = stop_device_script(devices, d)
    /\ IF running_scripts[d] = NoProc
       THEN /\ response' = Response("stop", d, 200, "true")
            /\ UNCHANGED <<running_scripts, procs, handler>>
       ELSE IF ~Alive(running_scripts[d])
       THEN /\ running_scripts' = cleanup_device(running_scripts, d)
            /\ procs' = Collect(procs, running_scripts', handler)
            /\ response' = Response("stop", d, 200, "true")
            /\ UNCHANGED handler
       ELSE /\ procs' = [procs EXCEPT ![running_scripts[d]].term = TRUE]
            /\ handler' = [op |-> "stop", dev |-> d,
                           proc |-> running_scripts[d]]
            /\ UNCHANGED <<running_scripts, response>>

ApiStopScript(d) ==
    /\ Serving
    /\ IF ~get_device(devices, d).present
       THEN /\ response' = Response("stop", d, 404, "none")
            /\ UNCHANGED <<devices, running_scripts, procs, handler>>
       ELSE IF get_device(devices, d).current_script = None
       THEN /\ response' = Response("stop", d, 400, "none")
            /\ UNCHANGED <<devices, running_scripts, procs, handler>>
       ELSE ExecutorStopBegin(d)
    /\ UNCHANGED <<logs, server, boots, runnerVars>>
    /\ UNCHANGED <<storeVars, appVars>>

\* process.wait(timeout) returns: the process has ended, poll() is not None,
\* the kill is skipped, _cleanup_device runs and stop returns True.
ExecutorStopWaitReturns ==
    /\ server = "up"
    /\ handler.op = "stop"
    /\ ~Alive(handler.proc)
    /\ running_scripts' = cleanup_device(running_scripts, handler.dev)
    /\ response' = Response("stop", handler.dev, 200, "true")
    /\ handler' = IdleHandler
    /\ procs' = Collect(procs, running_scripts', handler')
    /\ UNCHANGED <<devices, logs, server, boots, runnerVars>>
    /\ UNCHANGED <<storeVars, appVars>>

\* process.wait(timeout) with the process still alive after the timeout:
\* subprocess.TimeoutExpired is raised out of stop (the kill and the cleanup
\* below it are not reached) and the request ends with status 500.
ExecutorStopWaitTimesOut ==
    /\ server = "up"
    /\ handler.op = "stop"
    /\ Alive(handler.proc)
    /\ response' = Response("stop", handler.dev, 500, "raised")
    /\ handler' = IdleHandler
    /\ UNCHANGED <<devices, logs, server, boots, executorVars, runnerVars>>
    /\ UNCHANGED <<storeVars, appVars>>

\* ------------------------------------------------- ScriptRunner (threads)
ThreadAlive(t) == t # NoProc /\ threads[t].state = "alive"

\* A thread object nothing refers to any more leaves the model.
ThreadReferenced(ts, ctxs, handles, h, t) ==
    \/ ts[t].state \in {"queued", "alive"}
    \/ \E d \in DeviceIds : handles[d] = t \/ ctxs[d] = t
    \/ h.op = "join" /\ h.proc = t

CollectThreads(ts, ctxs, handles, h) ==
    [t \in ThreadIds |->
       IF ThreadReferenced(ts, ctxs, handles, h, t) THEN ts[t] ELSE NoThread]

FreeThreads == {t \in ThreadIds : threads[t].state = "unused"}

NewThread == CHOOSE t \in FreeThreads : \A q \in FreeThreads : t <= q

\* db.write_simple_log, the log sink of the ScriptRunner: the line is
\* appended to what the run has written so far.
write_simple_log(lines, entry) == Append(lines, entry)

\* An entry point invocation, as it stands in the trace of the run.
Called(s, i) == LogEntry("call", s, i, 0)

\* ScriptRunner._cleanup_device: the context and the thread handle of the
\* device are removed, each under `if device_id in ...`, and the device is
\* released in the registry.  A del of a key that is not there would raise
\* KeyError.
runner_cleanup_unguarded(dict, d) == TRUE

runner_cleanup_guard(dict, d) == dict[d] # NoProc

runner_cleanup_skipped(dict, d) == dict

runner_cleanup_del(dict, d) ==
    IF runner_cleanup_guard(dict, d) THEN [dict EXCEPT ![d] = NoProc] ELSE dict

key_error(dict, d) == runner_cleanup_guard(dict, d) /\ dict[d] = NoProc

RunnerCleanupDevice(d) ==
    /\ running_contexts' = runner_cleanup_del(running_contexts, d)
    /\ running_threads' = runner_cleanup_del(running_threads, d)
    /\ devices' = stop_device_script(devices, d)

\* ScriptRunner.is_running: true iff a thread handle is recorded and the
\* thread is alive.
runner_is_running(handles, d) == ThreadAlive(handles[d])

\* The thread run_script starts: it is in _run_single_script("open_game")
\* when open_game is asked for, else at the head of the loop.
StartedThread(d, s, opts) ==
    [state |-> "alive", dev |-> d, script |-> s, opts |-> opts,
     pc |-> IF opts.open_game THEN "open_game" ELSE "loop",
     loop_index |-> 0, should_stop |-> FALSE, sleep_left |-> 0,
     trace |-> IF opts.open_game THEN <<Called("open_game", 0)>> ELSE <<>>]

\* run_script with t the slot of the thread it may start.  A device that is
\* running makes it return without a word; a handle to a dead thread is
\* cleaned up by is_running first.
run_script(t, d, s, opts) ==
    IF runner_is_running(running_threads, d)
    THEN /\ threads' = [threads EXCEPT ![t] = NoThread]
         /\ UNCHANGED <<devices, running_contexts, running_threads>>
    ELSE /\ devices' = IF running_threads[d] # NoProc
                       THEN stop_device_script(devices, d)
                       ELSE devices
         /\ running_contexts' = [running_contexts EXCEPT ![d] = t]
         /\ running_threads' = [running_threads EXCEPT ![d] = t]
         /\ threads' = CollectThreads(
                          [threads EXCEPT ![t] = StartedThread(d, s, opts)],
                          running_contexts', running_threads', handler)

\* The start handler of api/execute.py with the ScriptRunner as executor:
\* run_script is queued as the background task.
QueuedThread(d, s, opts) ==
    [NoThread EXCEPT !.state = "queued", !.dev = d, !.script = s,
                     !.opts = opts]

ApiStartScriptRunner(d, s, asked) ==
    /\ Serving
    /\ StartAccepted(devices, d) => FreeThreads # {}
    /\ IF StartAccepted(devices, d)
       THEN /\ devices' = set_device_script(devices, d, s,
                                            EffectiveOptions(asked))
            /\ threads' = [threads EXCEPT ![NewThread] =
                              QueuedThread(d, s, EffectiveOptions(asked))]
            /\ response' = Response("start", d, 200, "none")
       ELSE /\ response' = Response("start", d, 400, "none")
            /\ UNCHANGED <<devices, threads>>
    /\ UNCHANGED <<logs, server, boots, handler, running_contexts,
                   running_threads, executorVars>>
    /\ UNCHANGED <<storeVars, appVars>>

\* The queued background task runs run_script.
RunScriptTask(t) ==
    /\ server = "up"
    /\ threads[t].state = "queued"
    /\ run_script(t, threads[t].dev, threads[t].script, threads[t].opts)
    /\ UNCHANGED <<logs, server, boots, handler, response, executorVars>>
    /\ UNCHANGED <<storeVars, appVars>>

\* run_script called with the options of the caller.
RunOptions == {GameOptions(FALSE, 2, 0), GameOptions(TRUE, 1, 0)}

\* Script ids the ScriptRunner is started with.
RunnerScripts == {"s1", "missing"}

RunScript(d, s, opts) ==
    /\ server = "up"
    /\ FreeThreads # {}
    /\ run_script(NewThread, d, s, opts)
    /\ UNCHANGED <<logs, server, boots, handler, response, executorVars>>
    /\ UNCHANGED <<storeVars, appVars>>

\* ------------------------------------- _execute_script_with_loops (worker)
\* What a call of _run_single_script can do: return a result that counts as
\* success, return a failure (no result, or success = False), or raise.  A
\* script id without a module raises at the import.
Outcomes(s) ==
    IF s \in BadScripts THEN {"raise"} ELSE {"ok", "fail", "raise"}

TraceHasRoom(t) == Len(threads[t].trace) < MaxTrace

WorkerFrame == UNCHANGED <<devices, logs, server, boots, handler, response,
                           running_contexts, running_threads, executorVars,
                           storeVars, appVars>>

\* The open_game call returns (its result is not read) or raises.
OpenGameReturns(t, outcome) ==
    /\ ThreadAlive(t)
    /\ threads[t].pc = "open_game"
    /\ IF outcome = "raise"
       THEN /\ TraceHasRoom(t)
            /\ threads' = [threads EXCEPT
                  ![t].pc = "cleanup",
                  ![t].trace = write_simple_log(@,
                       LogEntry("ERROR: Open game failed", None, 0, 0))]
       ELSE threads' = [threads EXCEPT
                  ![t].pc = IF threads[t].should_stop THEN "cleanup"
                            ELSE "loop"]
    /\ WorkerFrame

\* The head of the for loop: the range is exhausted, or a stop is seen, or
\* the iteration is logged and the entry point called.
LoopEntry(t) ==
    LogEntry("Loop", None, threads[t].loop_index + 1, threads[t].opts.max_loops)

\* for loop_index in range(max_loops): no value is left.
range_one_more(i, n) == i > n

range_exhausted(i, n) == i >= n

LoopHead(t) ==
    /\ ThreadAlive(t)
    /\ threads[t].pc = "loop"
    /\ IF \/ range_exhausted(threads[t].loop_index, threads[t].opts.max_loops)
          \/ threads[t].should_stop
       THEN threads' = [threads EXCEPT ![t].pc = "after"]
       ELSE /\ TraceHasRoom(t)
            /\ threads' = [threads EXCEPT
                  ![t].pc = "script",
                  ![t].trace = Append(write_simple_log(@, LoopEntry(t)),
                                      Called(threads[t].script,
                                             threads[t].loop_index + 1))]
    /\ WorkerFrame

\* The head of the loop at the grain of its statements: the test of the
\* range and of the stop flag, then, as a step of its own, the log line of
\* the iteration and the call of the entry point.  A stop request can fall
\* between the two.
should_stop_ignored(ctx) == FALSE

should_stop(ctx) == ctx.should_stop

LoopCheck(t) ==
    /\ ThreadAlive(t)
    /\ threads[t].pc = "loop"
    /\ threads' = [threads EXCEPT ![t].pc =
          IF \/ range_exhausted(threads[t].loop_index,
                                threads[t].opts.max_loops)
             \/ should_stop(threads[t])
          THEN "after" ELSE "iteration"]
    /\ WorkerFrame

LoopBody(t) ==
    /\ ThreadAlive(t)
    /\ threads[t].pc = "iteration"
    /\ TraceHasRoom(t)
    /\ threads' = [threads EXCEPT
          ![t].pc = "script",
          ![t].trace = Append(write_simple_log(@, LoopEntry(t)),
                              Called(threads[t].script,
                                     threads[t].loop_index + 1))]
    /\ WorkerFrame

\* The entry point returns or raises.  After a success the delay is slept
\* when another iteration follows and loop_delay > 0, unless a stop is seen.
delay_after_every_loop(t) == threads[t].opts.loop_delay > 0

DelayFollows(t) ==
    /\ threads[t].loop_index < threads[t].opts.max_loops - 1
    /\ threads[t].opts.loop_delay > 0

WaitingEntry(t) == LogEntry("Waiting", None, threads[t].opts.loop_delay, 0)

FailureEntry(t, outcome) ==
    IF outcome = "fail"
    THEN LogEntry("ERROR: Script execution failed", None, 0, 0)
    ELSE LogEntry("ERROR: Loop failed", None, threads[t].loop_index + 1, 0)

\* The iteration ends the loop: the entry point raised, or its result is
\* missing or says success = False.
iteration_failed_on_raise(outcome) == outcome = "raise"

iteration_failed(outcome) == outcome # "ok"

ScriptReturns(t, outcome) ==
    /\ ThreadAlive(t)
    /\ threads[t].pc = "script"
    /\ outcome \in Outcomes(threads[t].script)
    /\ IF iteration_failed(outcome)
       THEN /\ TraceHasRoom(t)
            /\ threads' = [threads EXCEPT
                  ![t].pc = "after",
                  ![t].trace = write_simple_log(@, FailureEntry(t, outcome))]
       ELSE IF ~DelayFollows(t)
       THEN threads' = [threads EXCEPT ![t].pc = "loop",
                                       ![t].loop_index = @ + 1]
       ELSE IF threads[t].should_stop
       THEN threads' = [threads EXCEPT ![t].pc = "after"]
       ELSE /\ TraceHasRoom(t)
            /\ threads' = [threads EXCEPT
                  ![t].pc = "sleep",
                  ![t].sleep_left = threads[t].opts.loop_delay,
                  ![t].trace = write_simple_log(@, WaitingEntry(t))]
    /\ WorkerFrame

\* The entry point returns a result dictionary: the loop reads its
\* "success" alone, so that a result is a success or a failure whatever
\* its "continue_loop" says.
Results ==
    [success : BOOLEAN, continue_loop : BOOLEAN]

result_outcome(result) == IF result.success THEN "ok" ELSE "fail"

MainReturns(t, result) == ScriptReturns(t, result_outcome(result))

\* time.sleep(loop_delay), one slice of 0.5 s at a time: the sleep goes on
\* until the whole delay has passed, then the next iteration begins.
SleepSlice(t) ==
    /\ ThreadAlive(t)
    /\ threads[t].pc = "sleep"
    /\ threads' = IF threads[t].sleep_left > 1
                  THEN [threads EXCEPT ![t].sleep_left = @ - 1]
                  ELSE [threads EXCEPT ![t].sleep_left = 0,
                                       ![t].pc = "loop",
                                       ![t].loop_index = @ + 1]
    /\ WorkerFrame

\* After the loop, however it was left: without a stop request the
\* completion line is written, with the configured number of loops.
CompletedEntry(t) ==
    LogEntry("Script completed successfully after", None, 0,
             threads[t].opts.max_loops)

AfterLoop(t) ==
    /\ ThreadAlive(t)
    /\ threads[t].pc = "after"
    /\ IF threads[t].should_stop
       THEN threads' = [threads EXCEPT ![t].pc = "cleanup"]
       ELSE /\ TraceHasRoom(t)
            /\ threads' = [threads EXCEPT
                  ![t].pc = "cleanup",
                  ![t].trace = write_simple_log(@, CompletedEntry(t))]
    /\ WorkerFrame

\* finally: _cleanup_device, and the thread ends.
ThreadExit(t) ==
    /\ ThreadAlive(t)
    /\ threads[t].pc = "cleanup"
    /\ RunnerCleanupDevice(threads[t].dev)
    /\ threads' = CollectThreads([threads EXCEPT ![t].state = "exited"],
                                 running_contexts', running_threads', handler)
    /\ UNCHANGED <<logs, server, boots, handler, response, executorVars>>
    /\ UNCHANGED <<storeVars, appVars>>

\* ------------------------------------------------- ScriptRunner.stop_script
\* stop_script up to thread.join(timeout): the registry is unbound, the
\* stop is requested on the context; without a thread handle the cleanup
\* runs at once and stop_script returns True.
request_stop(ts, ctxs, d) ==
    IF ctxs[d] # NoProc
    THEN [ts EXCEPT ![ctxs[d]].should_stop = TRUE]
    ELSE ts

\* stop_script for a device without a thread handle, as a function of the
\* registry and the two dictionaries: the registry is unbound (once by
\* stop_script, once more by _cleanup_device), the dictionaries are cleaned
\* and True is returned.
RunnerView(devs, ctxs, handles) ==
    [devices |-> devs, contexts |-> ctxs, handles |-> handles]

stop_script_no_thread(v, d) ==
    [view |-> RunnerView(
                 stop_device_script(stop_device_script(v.devices, d), d),
                 runner_cleanup_del(v.contexts, d),
                 runner_cleanup_del(v.handles, d)),
     ret |-> IF key_error(v.contexts, d) \/ key_error(v.handles, d)
             THEN "raised" ELSE "true"]

StopScript(d) ==
    /\ Serving
    /\ IF running_threads[d] # NoProc
       THEN /\ devices' = stop_device_script(devices, d)
            /\ threads' = request_stop(threads, running_contexts, d)
            /\ handler' = [op |-> "join", dev |-> d,
                           proc |-> running_threads[d]]
            /\ UNCHANGED <<running_contexts, running_threads, response>>
       ELSE LET r == stop_script_no_thread(
                        RunnerView(devices, running_contexts, running_threads),
                        d)
            IN  /\ devices' = r.view.devices
                /\ running_contexts' = r.view.contexts
                /\ running_threads' = r.view.handles
                /\ threads' = CollectThreads(
                                 request_stop(threads, running_contexts, d),
                                 running_contexts', running_threads', handler)
                /\ response' = Response("stop_script", d, 0, r.ret)
                /\ UNCHANGED handler
    /\ UNCHANGED <<logs, server, boots, executorVars>>
    /\ UNCHANGED <<storeVars, appVars>>

\* thread.join returns with the thread ended: cleanup, True.
JoinReturns ==
    /\ server = "up"
    /\ handler.op = "join"
    /\ ~ThreadAlive(handler.proc)
    /\ RunnerCleanupDevice(handler.dev)
    /\ handler' = IdleHandler
    /\ threads' = CollectThreads(threads, running_contexts',
                                 running_threads', handler')
    /\ response' = Response("stop_script", handler.dev, 0, "true")
    /\ UNCHANGED <<logs, server, boots, executorVars>>
    /\ UNCHANGED <<storeVars, appVars>>

\* thread.join times out with the thread alive: stop_script returns False,
\* _cleanup_device is not called.
JoinTimesOut ==
    /\ server = "up"
    /\ handler.op = "join"
    /\ ThreadAlive(handler.proc)
    /\ handler' = IdleHandler
    /\ response' = Response("stop_script", handler.dev, 0, "false")
    /\ UNCHANGED <<devices, logs, server, boots, threads, running_contexts,
                   running_threads, executorVars>>
    /\ UNCHANGED <<storeVars, appVars>>

\* ------------------------------------- Database calls that interleave
\* Every Database method loads the whole file and saves the whole file; the
\* file lock is held inside _load_devices and inside _save_devices, never
\* from the load to the save.  A call is therefore a sequence of atomic
\* loads and saves, and the calls of the handler and of a worker interleave
\* between them.
programVars == <<devices, logs, server, boots, handler, response,
                 executorVars, runnerVars, appVars>>

\* The script and the options a device is bound with.
RegistryScripts == {"s1"}

RegistryOptions == GameOptions(FALSE, HardcodedMaxLoops, HardcodedLoopDelay)

\* adb.get_list_devices lists the connected devices in this order.
DeviceOrder == <<"d1", "d2">>

Returned(op, d) == [IdleCaller EXCEPT !.op = op, !.dev = d]

\* After get_device: save_device(device) is to be called with rec.
Pending(op, d, found, rec) ==
    [IdleCaller EXCEPT !.pc = "save_device", !.op = op, !.dev = d,
                       !.device = found,
                       !.todo = <<[id |-> d, rec |-> rec]>>]

\* set_device_script up to save_device: an unknown device makes it return
\* without a word, a known one is bound whatever it is bound to already.
SetDeviceScript(c, d, s, opts) ==
    /\ c = "handler"
    /\ callers[c].pc = "idle"
    /\ LET found == get_device(devices_file, d)
       IN  callers' = [callers EXCEPT ![c] =
              IF found.present
              THEN Pending("set_device_script", d, found,
                           Device("running", s, opts))
              ELSE Returned("set_device_script", d)]
    /\ UNCHANGED <<devices_file, logs_file, programVars>>

\* stop_device_script up to save_device: the handler calls it in stop, the
\* worker of the device in _cleanup_device.
StopDeviceScript(c, d) ==
    /\ c \in {"handler", WorkerOf[d]}
    /\ callers[c].pc = "idle"
    /\ LET found == get_device(devices_file, d)
       IN  callers' = [callers EXCEPT ![c] =
              IF found.present /\ found.current_script # None
              THEN Pending("stop_device_script", d, found,
                           Device("available", None, NoOptions))
              ELSE Returned("stop_device_script", d)]
    /\ UNCHANGED <<devices_file, logs_file, programVars>>

\* set_device_status up to save_device: the status is set, the script and
\* the options of the record are kept.
SetDeviceStatus(c, d, status) ==
    /\ c = "handler"
    /\ callers[c].pc = "idle"
    /\ LET found == get_device(devices_file, d)
       IN  callers' = [callers EXCEPT ![c] =
              IF found.present
              THEN Pending("set_device_status", d, found,
                           [found EXCEPT !.device_status = status])
              ELSE Returned("set_device_status", d)]
    /\ UNCHANGED <<devices_file, logs_file, programVars>>

\* save_device, first half: _load_devices.
SaveDeviceLoad(c) ==
    /\ callers[c].pc = "save_device"
    /\ callers' = [callers EXCEPT ![c].pc = "write",
                                  ![c].loaded = devices_file]
    /\ UNCHANGED <<devices_file, logs_file, programVars>>

\* save_device, second half: the entry of the device is replaced (or
\* appended) in the loaded list and the list is saved.  The refresh goes on
\* with its next device, then with clean_device_logs.
AfterSave(rec) ==
    IF Len(rec.todo) > 1
    THEN [rec EXCEPT !.pc = "save_device", !.todo = Tail(@),
                     !.loaded = NoDevices]
    ELSE IF rec.op = "get_all_devices"
    THEN [rec EXCEPT !.pc = "clean_device_logs", !.todo = <<>>,
                     !.loaded = NoDevices]
    ELSE Returned(rec.op, rec.dev)

SaveDeviceWrite(c) ==
    /\ callers[c].pc = "write"
    /\ devices_file' = save_device(callers[c].loaded,
                                   Head(callers[c].todo).id,
                                   Head(callers[c].todo).rec)
    /\ callers' = [callers EXCEPT ![c] = AfterSave(callers[c])]
    /\ UNCHANGED <<logs_file, programVars>>

\* get_all_devices of api/devices.py up to its first save: the registry is
\* loaded once (existing_devices); for every connected device the Device
\* object to save is made from that load (a record without current_script
\* is set available, one with current_script keeps its status, a new device
\* is available); the known devices that are not connected are to be
\* removed.
ToSave(existing, connected) ==
    LET ids == SelectSeq(DeviceOrder, LAMBDA d : d \in connected)
    IN  [i \in 1..Len(ids) |->
           [id |-> ids[i], rec |-> RefreshedDevice(existing[ids[i]])]]

AfterRemove(rec) ==
    IF rec.todo # <<>>
    THEN [rec EXCEPT !.pc = "save_device", !.loaded = NoDevices]
    ELSE [rec EXCEPT !.pc = "clean_device_logs", !.loaded = NoDevices]

GetAllDevices(c, connected) ==
    /\ c = "handler"
    /\ callers[c].pc = "idle"
    /\ LET existing == devices_file
           gone == {d \in RegistryIds : existing[d].present /\ d \notin connected}
           begun == [IdleCaller EXCEPT !.op = "get_all_devices",
                                       !.connected = connected,
                                       !.remove = gone,
                                       !.todo = ToSave(existing, connected)]
       IN  callers' = [callers EXCEPT ![c] =
              IF gone # {} THEN [begun EXCEPT !.pc = "remove_devices"]
              ELSE AfterRemove(begun)]
    /\ UNCHANGED <<devices_file, logs_file, programVars>>

\* remove_devices, first half: _load_devices; nothing is saved when none of
\* the devices to remove is in the loaded list.
RemoveDevicesLoad(c) ==
    /\ callers[c].pc = "remove_devices"
    /\ callers' = [callers EXCEPT ![c] =
          IF \E d \in callers[c].remove : devices_file[d].present
          THEN [callers[c] EXCEPT !.pc = "remove_write",
                                  !.loaded = devices_file]
          ELSE AfterRemove(callers[c])]
    /\ UNCHANGED <<devices_file, logs_file, programVars>>

\* remove_devices, second half: the loaded list without the removed devices
\* is saved.
RemoveDevicesWrite(c) ==
    /\ callers[c].pc = "remove_write"
    /\ devices_file' = [d \in RegistryIds |->
                          IF d \in callers[c].remove THEN NoDevice
                          ELSE callers[c].loaded[d]]
    /\ callers' = [callers EXCEPT ![c] = AfterRemove(callers[c])]
    /\ UNCHANGED <<logs_file, programVars>>

\* clean_device_logs with the ids of the saved devices, and the return of
\* get_all_devices: the logs of every other device are dropped.
CleanDeviceLogs(c) ==
    /\ callers[c].pc = "clean_device_logs"
    /\ logs_file' = [d \in RegistryIds |->
                       IF d \in callers[c].connected THEN logs_file[d]
                       ELSE <<>>]
    /\ callers' = [callers EXCEPT ![c] = Returned("get_all_devices", None)]
    /\ UNCHANGED <<devices_file, programVars>>

\* write_script_log, first half: _load_device_logs.  The worker of a device
\* writes the lines of its run one after the other.
WriteScriptLog(c, d) ==
    /\ c = WorkerOf[d]
    /\ callers[c].pc = "idle"
    /\ callers[c].written < MaxLines
    /\ callers' = [callers EXCEPT ![c].pc = "save_logs",
                                  ![c].op = "write_script_log",
                                  ![c].dev = d,
                                  ![c].logs = logs_file]
    /\ UNCHANGED <<devices_file, logs_file, programVars>>

\* The i-th line a worker writes.
Message(i) == LogEntry("message", None, i, 0)

\* write_script_log, second half: the entry is appended to the list of the
\* device in the loaded logs and the whole of it is saved.
SaveDeviceLogs(c) ==
    /\ callers[c].pc = "save_logs"
    /\ logs_file' = write_log(callers[c].logs, callers[c].dev,
                              Message(callers[c].written + 1))
    /\ callers' = [callers EXCEPT ![c].pc = "idle",
                                  ![c].logs = NoLogs,
                                  ![c].written = @ + 1]
    /\ UNCHANGED <<devices_file, programVars>>

NextLogs ==
    \/ \E c \in Callers, d \in RegistryIds : WriteScriptLog(c, d)
    \/ \E c \in Callers : SaveDeviceLogs(c)

SpecLogs == Init /\ [][NextLogs]_vars

\* The statuses set_device_status is called with.
Statuses == {"available", "running"}

\* The registry is followed with the handler and the worker of one run.
RegistryCallers == {"handler", WorkerOf["d1"]}

NextRegistry ==
    \/ \E c \in RegistryCallers, d \in RegistryIds, s \in RegistryScripts :
           SetDeviceScript(c, d, s, RegistryOptions)
    \/ \E c \in RegistryCallers, d \in RegistryIds : StopDeviceScript(c, d)
    \/ \E c \in RegistryCallers, d \in RegistryIds, st \in Statuses :
           SetDeviceStatus(c, d, st)
    \/ \E c \in RegistryCallers, connected \in SUBSET RegistryIds :
           GetAllDevices(c, connected)
    \/ \E c \in RegistryCallers : SaveDeviceLoad(c)
    \/ \E c \in RegistryCallers : SaveDeviceWrite(c)
    \/ \E c \in RegistryCallers : RemoveDevicesLoad(c)
    \/ \E c \in RegistryCallers : RemoveDevicesWrite(c)
    \/ \E c \in RegistryCallers : CleanDeviceLogs(c)

SpecRegistry == Init /\ [][NextRegistry]_vars

\* ---------------------------------------------------------- specification
Next ==
    \/ Lifespan
    \/ Restart
    \/ \E c \in SUBSET DeviceIds : ApiGetAllDevices(c)
    \/ \E d \in DeviceIds, s \in ScriptIds, o \in RequestOptions :
           ApiStartScript(d, s, o)
    \/ \E p \in ProcIds : ExecutorRun(p)
    \/ \E p \in ProcIds : ProcessExit(p)
    \/ \E p \in ProcIds : MonitorOutputEnd(p)
    \/ \E d \in DeviceIds : ApiStopScript(d)
    \/ ExecutorStopWaitReturns
    \/ ExecutorStopWaitTimesOut

Spec == Init /\ [][Next]_vars

NextRunner ==
    \/ Lifespan
    \/ \E c \in SUBSET DeviceIds : ApiGetAllDevices(c)
    \/ \E d \in DeviceIds, s \in RunnerScripts, o \in RequestOptions :
           ApiStartScriptRunner(d, s, o)
    \/ \E t \in ThreadIds : RunScriptTask(t)
    \/ \E d \in DeviceIds, s \in RunnerScripts, o \in RunOptions :
           RunScript(d, s, o)
    \/ \E t \in ThreadIds, o \in {"ok", "fail", "raise"} : OpenGameReturns(t, o)
    \/ \E t \in ThreadIds : LoopHead(t)
    \/ \E t \in ThreadIds, o \in {"ok", "fail", "raise"} : ScriptReturns(t, o)
    \/ \E t \in ThreadIds : SleepSlice(t)
    \/ \E t \in ThreadIds : AfterLoop(t)
    \/ \E t \in ThreadIds : ThreadExit(t)
    \/ \E d \in DeviceIds : StopScript(d)
    \/ JoinReturns
    \/ JoinTimesOut

SpecRunner == Init /\ [][NextRunner]_vars

\* The run of the concrete scenario: open_game first, two loops, a delay of
\* 0.1 s (one sleep, shorter than a slice) between them.
ScenarioOptions == GameOptions(TRUE, 2, 1)

RunScenario(d) == RunScript(d, "s1", ScenarioOptions)

NextScenario ==
    \/ Lifespan
    \/ \E c \in SUBSET DeviceIds : ApiGetAllDevices(c)
    \/ \E d \in DeviceIds, o \in RequestOptions :
           ApiStartScriptRunner(d, "s1", o)
    \/ \E t \in ThreadIds : RunScriptTask(t)
    \/ \E d \in DeviceIds : RunScenario(d)
    \/ \E t \in ThreadIds, o \in {"ok", "fail", "raise"} : OpenGameReturns(t, o)
    \/ \E t \in ThreadIds : LoopHead(t)
    \/ \E t \in ThreadIds, o \in {"ok", "fail", "raise"} : ScriptReturns(t, o)
    \/ \E t \in ThreadIds : SleepSlice(t)
    \/ \E t \in ThreadIds : AfterLoop(t)
    \/ \E t \in ThreadIds : ThreadExit(t)
    \/ \E d \in DeviceIds : StopScript(d)
    \/ JoinReturns
    \/ JoinTimesOut

SpecScenario == Init /\ [][NextScenario]_vars

\* The ScriptRunner with the head of the loop taken statement by statement.
CancelOptions == {GameOptions(FALSE, 2, 0), GameOptions(TRUE, 2, 1)}

NextCancel ==
    \/ Lifespan
    \/ \E c \in SUBSET DeviceIds : ApiGetAllDevices(c)
    \/ \E d \in DeviceIds, o \in CancelOptions : RunScript(d, "s1", o)
    \/ \E t \in ThreadIds, o \in {"ok", "fail", "raise"} : OpenGameReturns(t, o)
    \/ \E t \in ThreadIds : LoopCheck(t)
    \/ \E t \in ThreadIds : LoopBody(t)
    \/ \E t \in ThreadIds, r \in Results : MainReturns(t, r)
    \/ \E t \in ThreadIds, o \in {"ok", "fail", "raise"} : ScriptReturns(t, o)
    \/ \E t \in ThreadIds : SleepSlice(t)
    \/ \E t \in ThreadIds : AfterLoop(t)
    \/ \E t \in ThreadIds : ThreadExit(t)
    \/ \E d \in DeviceIds : StopScript(d)
    \/ JoinReturns
    \/ JoinTimesOut

SpecCancel == Init /\ [][NextCancel]_vars

\* The subprocess variant with the start requests taken from their bodies.
BodyScripts == {"s1"}

NextRequest ==
    \/ Lifespan
    \/ \E c \in SUBSET DeviceIds : ApiGetAllDevices(c)
    \/ \E d \in DeviceIds, s \in BodyScripts, body \in RequestBodies :
           PostStart(d, s, body)
    \/ \E p \in ProcIds : ExecutorRun(p)
    \/ \E p \in ProcIds : ProcessExit(p)
    \/ \E p \in ProcIds : MonitorOutputEnd(p)
    \/ \E d \in DeviceIds : ApiStopScript(d)
    \/ ExecutorStopWaitReturns
    \/ ExecutorStopWaitTimesOut

SpecRequest == Init /\ [][NextRequest]_vars

\* ------------------------------------------------ the Flask server
\* DeviceManager and ExecutionManager of apps/server, for one device.  The
\* handlers of Flask, the discovery thread and the log-capture threads run
\* at the same time on the same objects.
backendVars == <<devices, logs, server, boots, handler, response,
                 executorVars, runnerVars, storeVars>>

managerVars == <<manager_device, executions, stop_call>>

streamVars == <<active_streams, stream_threads, stream_lock>>

serverVars == <<managerVars, streamVars, backendVars>>

Busy(status, e) == [status |-> status, current_execution_id |-> e]

\* device.status = "available" with the script and the execution cleared.
Released == Busy("available", NoExecutionId)

FreeExecutions == {e \in ExecutionIds : executions[e].state = "unused"}

\* Executions that nothing refers to any more leave the model.
Forgotten(ex, call) ==
    [e \in ExecutionIds |->
       IF /\ ex[e].state = "exited" /\ ~ex[e].listed
          /\ ex[e].capture = "ended"
          /\ call.id # e
       THEN NoExecution ELSE ex[e]]

\* One cycle of discover() for the device: seen by the bridge, an offline
\* device becomes available; not seen, a device that is not offline becomes
\* offline.  Nothing else of the device is read.
discover(dev, seen) ==
    IF seen
    THEN IF dev.status = "offline" THEN [dev EXCEPT !.status = "available"]
         ELSE dev
    ELSE IF dev.status # "offline" THEN [dev EXCEPT !.status = "offline"]
         ELSE dev

Discover(seen) ==
    /\ manager_device' = discover(manager_device, seen)
    /\ UNCHANGED <<executions, stop_call, backendVars, streamVars, retry>>

\* ExecutionManager.start_script: refused unless the device is available;
\* the subprocess is started, the device marked busy, the execution listed
\* and its log-capture thread started.
ManagerStartScript ==
    /\ manager_device.status = "available"
    /\ FreeExecutions # {}
    /\ LET e == CHOOSE x \in FreeExecutions : \A y \in FreeExecutions : x <= y
       IN  /\ executions' = [executions EXCEPT ![e] =
                 [state |-> "alive", listed |-> TRUE, capture |-> "reading"]]
           /\ manager_device' = Busy("busy", e)
    /\ UNCHANGED <<stop_call, backendVars, streamVars, retry>>

\* The script of an execution ends by itself.
SubprocessEnds(e) ==
    /\ executions[e].state = "alive"
    /\ executions' = [executions EXCEPT ![e].state = "exited"]
    /\ UNCHANGED <<manager_device, stop_call, backendVars, streamVars, retry>>

\* _capture_logs: poll() tells that the process has ended; the device is
\* released and saved; the id is looked up in running_scripts and, found,
\* deleted.  A KeyError of the del is caught by the except clause of the
\* thread, which releases the device once more and ends.
CaptureSeesEnd(e) ==
    /\ executions[e].capture = "reading"
    /\ executions[e].state = "exited"
    /\ executions' = [executions EXCEPT ![e].capture = "release"]
    /\ UNCHANGED <<manager_device, stop_call, backendVars, streamVars, retry>>

CaptureReleases(e) ==
    /\ executions[e].capture = "release"
    /\ manager_device' = Released
    /\ executions' = [executions EXCEPT ![e].capture = "lookup"]
    /\ UNCHANGED <<stop_call, backendVars, streamVars, retry>>

CaptureLooksUp(e) ==
    /\ executions[e].capture = "lookup"
    /\ executions' = Forgotten(
          [executions EXCEPT ![e].capture =
              IF executions[e].listed THEN "del" ELSE "ended"], stop_call)
    /\ UNCHANGED <<manager_device, stop_call, backendVars, streamVars, retry>>

CaptureDeletes(e) ==
    /\ executions[e].capture = "del"
    /\ executions' = Forgotten(
          [executions EXCEPT ![e].capture = "ended", ![e].listed = FALSE],
          stop_call)
    /\ manager_device' = IF executions[e].listed THEN manager_device
                         ELSE Released
    /\ UNCHANGED <<stop_call, backendVars, streamVars, retry>>

\* ExecutionManager.stop_script(execution_id): an id that is not listed
\* raises ValueError; otherwise the process is terminated and waited for,
\* the log thread joined for 2 s at most, the device released and saved,
\* and the id deleted from running_scripts.  Whatever is raised on the way
\* is raised again to the caller.
del_raises(ex, e) == ~ex[e].listed

ManagerStopScript(e) ==
    /\ stop_call.pc = "idle"
    /\ executions[e].state # "unused"
    /\ stop_call' = IF executions[e].listed
                    THEN [pc |-> "wait", id |-> e, ret |-> "none"]
                    ELSE [pc |-> "idle", id |-> NoExecutionId, ret |-> "raised"]
    /\ UNCHANGED <<manager_device, executions, backendVars, streamVars, retry>>

\* process.wait(timeout=5) returns: the process has ended.
StopWaitReturns ==
    /\ stop_call.pc = "wait"
    /\ executions' = [executions EXCEPT ![stop_call.id].state = "exited"]
    /\ stop_call' = [stop_call EXCEPT !.pc = "join"]
    /\ UNCHANGED <<manager_device, backendVars, streamVars, retry>>

\* process.wait(timeout=5) raises TimeoutExpired: the process has not ended
\* on the signal, and stop_script raises.
StopWaitTimesOut ==
    /\ stop_call.pc = "wait"
    /\ executions[stop_call.id].state = "alive"
    /\ stop_call' = [pc |-> "idle", id |-> NoExecutionId, ret |-> "raised"]
    /\ UNCHANGED <<manager_device, executions, backendVars, streamVars, retry>>

\* log_thread.join(timeout=2) returns, with the thread ended or not.
StopJoinReturns ==
    /\ stop_call.pc = "join"
    /\ stop_call' = [stop_call EXCEPT !.pc = "release"]
    /\ UNCHANGED <<manager_device, executions, backendVars, streamVars, retry>>

StopReleases ==
    /\ stop_call.pc = "release"
    /\ manager_device' = Released
    /\ stop_call' = [stop_call EXCEPT !.pc = "del"]
    /\ UNCHANGED <<executions, backendVars, streamVars, retry>>

StopDeletes ==
    /\ stop_call.pc = "del"
    /\ stop_call' = [pc |-> "idle", id |-> NoExecutionId,
                     ret |-> IF del_raises(executions, stop_call.id)
                             THEN "raised" ELSE "true"]
    /\ executions' = Forgotten(
          [executions EXCEPT ![stop_call.id].listed = FALSE], stop_call')
    /\ UNCHANGED <<manager_device, backendVars, streamVars, retry>>

NextManager ==
    \/ \E seen \in BOOLEAN : Discover(seen)
    \/ ManagerStartScript
    \/ \E e \in ExecutionIds : SubprocessEnds(e)
    \/ \E e \in ExecutionIds : CaptureSeesEnd(e)
    \/ \E e \in ExecutionIds : CaptureReleases(e)
    \/ \E e \in ExecutionIds : CaptureLooksUp(e)
    \/ \E e \in ExecutionIds : CaptureDeletes(e)
    \/ \E e \in ExecutionIds : ManagerStopScript(e)
    \/ StopWaitReturns
    \/ StopWaitTimesOut
    \/ StopJoinReturns
    \/ StopReleases
    \/ StopDeletes

SpecManager == Init /\ [][NextManager]_vars

\* ------------------------------------------------ the stream handlers
\* apis/stream_apis.py for one session id.  active_streams_lock is held by
\* stop_stream_for_session from its test to its del, the join of up to 2 s
\* included; should_stop and the cleanup of a thread take it too.
FreeStreams == {t \in StreamIds : stream_threads[t].state = "unused"}

\* handle_start_stream: refused with stream_error when the session has an
\* entry; otherwise the entry is registered and the thread started.
HandleStartStream ==
    /\ stream_lock = "free"
    /\ ~active_streams.present
    /\ FreeStreams # {}
    /\ LET t == CHOOSE x \in FreeStreams : \A y \in FreeStreams : x <= y
       IN  /\ active_streams' =
                 [present |-> TRUE, thread |-> t, stop_flag |-> FALSE]
           /\ stream_threads' = [stream_threads EXCEPT ![t] =
                 [state |-> "alive", pc |-> "check", stopped |-> FALSE]]
    /\ UNCHANGED <<stream_lock, managerVars, backendVars, retry>>

\* stop_stream_for_session: with an entry for the session, the flag is set
\* and the thread joined, the lock held.
StopStreamBegins ==
    /\ stream_lock = "free"
    /\ active_streams.present
    /\ active_streams' = [active_streams EXCEPT !.stop_flag = TRUE]
    /\ stream_lock' = "stop"
    /\ UNCHANGED <<stream_threads, managerVars, backendVars, retry>>

\* The join returns (the thread has ended, or the 2 s have passed): the
\* entry is deleted and the lock released.
StopStreamEnds ==
    /\ stream_lock = "stop"
    /\ active_streams' = NoStream
    /\ stream_lock' = "free"
    /\ stream_threads' =
          [t \in StreamIds |->
             IF t = active_streams.thread /\ stream_threads[t].state = "alive"
             THEN [stream_threads[t] EXCEPT !.stopped = TRUE]
             ELSE stream_threads[t]]
    /\ UNCHANGED <<managerVars, backendVars, retry>>

\* should_stop() of stream_screen: the session has no entry, or the entry
\* of the session has its flag set.
stream_should_stop(streams) == ~streams.present \/ streams.stop_flag

\* The test at the head of the while loop.
StreamCheck(t) ==
    /\ stream_threads[t].state = "alive"
    /\ stream_threads[t].pc = "check"
    /\ stream_lock = "free"
    /\ stream_threads' = [stream_threads EXCEPT ![t].pc =
          IF stream_should_stop(active_streams) THEN "finally" ELSE "read"]
    /\ UNCHANGED <<active_streams, stream_lock, managerVars, backendVars, retry>>

\* connection.read: data with the start of a NAL unit, data without one,
\* or no data, which ends the stream.
StreamRead(t, data) ==
    /\ stream_threads[t].state = "alive"
    /\ stream_threads[t].pc = "read"
    /\ stream_threads' = [stream_threads EXCEPT ![t].pc =
          CASE data = "unit" -> "emit"
            [] data = "partial" -> "check"
            [] OTHER -> "finally"]
    /\ UNCHANGED <<active_streams, stream_lock, managerVars, backendVars, retry>>

\* The test before the chunk is sent, and socketio.emit("stream_data").
StreamEmit(t) ==
    /\ stream_threads[t].state = "alive"
    /\ stream_threads[t].pc = "emit"
    /\ stream_lock = "free"
    /\ stream_threads' = [stream_threads EXCEPT ![t].pc = "check"]
    /\ UNCHANGED <<active_streams, stream_lock, managerVars, backendVars, retry>>

\* finally: the connection is closed, stream_ended is sent and the entry
\* of the session, if there is one, is deleted.
StreamFinally(t) ==
    /\ stream_threads[t].state = "alive"
    /\ stream_threads[t].pc = "finally"
    /\ stream_lock = "free"
    /\ active_streams' = NoStream
    /\ stream_threads' = [stream_threads EXCEPT ![t] = NoStreamThread]
    /\ UNCHANGED <<stream_lock, managerVars, backendVars, retry>>

NextStream ==
    \/ HandleStartStream
    \/ StopStreamBegins
    \/ StopStreamEnds
    \/ \E t \in StreamIds : StreamCheck(t)
    \/ \E t \in StreamIds, data \in {"unit", "partial", "none"} :
           StreamRead(t, data)
    \/ \E t \in StreamIds : StreamEmit(t)
    \/ \E t \in StreamIds : StreamFinally(t)

SpecStream == Init /\ [][NextStream]_vars

\* ------------------------------------------------ retry_on_error
\* libs/adb_controller.py: the wrapper invokes the function once for each
\* value of range(max_attempts).  A result is returned at once; IOError or
\* AdbError is followed by a sleep of delay * 2^attempt when an attempt is
\* left and by return_value when none is; any other Exception is reported
\* and followed by return_value.  The delay is counted in slices of 0.5 s.
Delays == {0, 1, 2}

ReturnValues == {"None", "False"}

RECURSIVE pow2(_)
pow2(n) == IF n = 0 THEN 1 ELSE 2 * pow2(n - 1)

\* if attempt < max_attempts - 1: an attempt is left, the wrapper sleeps.
sleeps_after_every_failure(attempt, max_attempts) == TRUE

attempt_left(attempt, max_attempts) == attempt < max_attempts - 1

Returns(r, result) == [r EXCEPT !.pc = "returned", !.result = result]

\* for attempt in range(max_attempts): the next value, or the end of the
\* loop and `return return_value`.
NextAttempt(r, attempt) ==
    IF attempt < r.max_attempts
    THEN [r EXCEPT !.pc = "call", !.attempt = attempt]
    ELSE Returns(r, r.return_value)

RetryCall(m, delay, rv) ==
    /\ retry.pc = "idle"
    /\ retry' = NextAttempt([NoRetry EXCEPT !.max_attempts = m,
                                            !.delay = delay,
                                            !.return_value = rv], 0)
    /\ UNCHANGED serverVars

\* The function returns a value, raises IOError or AdbError, or raises
\* another Exception.
FuncReturns(outcome) ==
    /\ retry.pc = "call"
    /\ LET r == [retry EXCEPT !.invoked = Append(@, outcome)]
       IN  retry' =
             CASE outcome = "value" -> Returns(r, "value")
               [] outcome = "AdbError" ->
                    IF attempt_left(r.attempt, r.max_attempts)
                    THEN [r EXCEPT !.pc = "sleep"]
                    ELSE Returns(r, r.return_value)
               [] OTHER -> Returns(r, r.return_value)
    /\ UNCHANGED serverVars

\* time.sleep(current_delay) returns and the loop goes on.
RetrySleepEnds ==
    /\ retry.pc = "sleep"
    /\ retry' = NextAttempt(
          [retry EXCEPT !.slept = Append(@, retry.delay * pow2(retry.attempt))],
          retry.attempt + 1)
    /\ UNCHANGED serverVars

\* The caller has the result; the wrapper can be called again.
RetryDone ==
    /\ retry.pc = "returned"
    /\ retry' = NoRetry
    /\ UNCHANGED serverVars

NextRetry ==
    \/ \E m \in 0..MaxAttempts, delay \in Delays, rv \in ReturnValues :
           RetryCall(m, delay, rv)
    \/ \E outcome \in {"value", "AdbError", "Exception"} : FuncReturns(outcome)
    \/ RetrySleepEnds
    \/ RetryDone

SpecRetry == Init /\ [][NextRetry]_vars

\* =================================================================== claims

\* The scripts of a device: the one the registry binds to it and the ones
\* of its live child processes.
BoundOrRunning(d) ==
    ({devices[d].current_script} \ {None})
      \cup {procs[p].script : p \in {q \in ProcIds : /\ procs[q].state = "alive"
                                                     /\ procs[q].dev = d}}

\* C1: a device never has two scripts bound or running at the same time: a
\* start for a device whose earlier run is still there is refused and no
\* second script gets bound to it.
C1_OneScriptPerDevice ==
    \A d \in DeviceIds : Cardinality(BoundOrRunning(d)) <= 1

\* The step in which _monitor_output of a process returns.
MonitorEnds(p) ==
    /\ procs[p].state = "exited"
    /\ procs[p].monitor
    /\ ~procs'[p].monitor
    /\ boots' = boots

\* C3: when the child process of the subprocess Executor ends on its own (no
\* stop was called for it), the end of _monitor_output releases the device
\* in the registry as well as the process handle.
C3_NaturalExitUnbinds ==
    [][\A p \in ProcIds :
         (MonitorEnds(p) /\ ~procs[p].term)
            => /\ running_scripts'[procs[p].dev] = NoProc
               /\ devices'[procs[p].dev].current_script = None
               /\ devices'[procs[p].dev].device_status = "available"]_vars

\* C4: a start request whose script id resolves to no script is refused at
\* once and changes nothing: no device is ever bound to such a script.
C4_NeverBoundToUnknownScript ==
    \A d \in DeviceIds : devices[d].current_script \notin BadScripts

\* The step in which the wait of Executor.stop ends.
StopWaitEnds ==
    /\ handler.op = "stop"
    /\ handler'.op = "idle"
    /\ boots' = boots

\* C5: when stop's wait on a live worker ends, with or without a timeout,
\* stop has not raised, the worker is no longer alive (killed if need be)
\* and the handle of the device is removed.
C5_StopAlwaysCleansUp ==
    [][StopWaitEnds
         => /\ response'.ret = "true"
            /\ procs'[handler.proc].state # "alive"
            /\ running_scripts'[handler.dev] = NoProc]_vars

\* The first request a restarted server serves is a device refresh.
FirstRefreshAfterRestart ==
    /\ boots > 0
    /\ server = "up"
    /\ server' = "up"
    /\ response.op = "none"
    /\ response'.op = "devices"

\* C8: after a restart the persisted bindings have no worker behind them
\* (no run can exist before the first request is served), and by the end of
\* the first device refresh the server has set every such device back to
\* available with no script bound.
C8_ReconciledAfterRestart ==
    [][FirstRefreshAfterRestart
         => \A d \in DeviceIds : /\ devices'[d].current_script = None
                                 /\ devices'[d].device_status = "available"]_vars

\* The step in which a worker thread ends.
ThreadEnds(t) ==
    /\ threads[t].state = "alive"
    /\ threads'[t].state # "alive"

HasEntry(trace, kinds) ==
    \E i \in 1..Len(trace) : trace[i].kind \in kinds

JoinEnds ==
    /\ handler.op = "join"
    /\ handler'.op = "idle"

\* C6: when thread.join times out, stop_script returns False and has still
\* cleaned up: the context and the thread handle of the device are removed
\* and the device is unbound, so that is_running and the registry agree.
C6_FailedStopStillCleansUp ==
    [][(JoinEnds /\ response'.ret = "false")
         => /\ running_contexts'[handler.dev] = NoProc
            /\ running_threads'[handler.dev] = NoProc
            /\ devices'[handler.dev].current_script = None]_vars

\* C7: stop_script on a device without a worker returns True, raises
\* nothing (no handle is deleted that is not there), and a second stop_script
\* right after it returns True again and leaves the registry and the
\* dictionaries exactly as the first one left them.
C7_IdleStopIdempotent ==
    \A d \in DeviceIds :
       running_threads[d] = NoProc
         => LET once == stop_script_no_thread(
                           RunnerView(devices, running_contexts,
                                      running_threads), d)
                twice == stop_script_no_thread(once.view, d)
            IN  /\ once.ret = "true"
                /\ twice.ret = "true"
                /\ twice.view = once.view
                /\ once.view.handles[d] = NoProc
                /\ once.view.devices[d].current_script = None

\* C7, witness: stop_script has just returned True for a known device that
\* has no worker, no queued run and nothing bound.
C7_Witness ==
    /\ response.op = "stop_script"
    /\ response.ret = "true"
    /\ handler.op = "idle"
    /\ devices[response.dev].present
    /\ devices[response.dev].current_script = None
    /\ running_threads[response.dev] = NoProc
    /\ \A t \in ThreadIds : threads[t].state = "unused"

\* The events of a run of n loops without delay, failure or stop, in order.
RECURSIVE Iterations(_, _, _)
Iterations(s, i, n) ==
    IF i > n THEN <<>>
    ELSE <<LogEntry("Loop", None, i, n), Called(s, i)>> \o Iterations(s, i + 1, n)

ExpectedTrace(s, opts) ==
    (IF opts.open_game THEN <<Called("open_game", 0)>> ELSE <<>>)
      \o Iterations(s, 1, opts.max_loops)
      \o <<LogEntry("Script completed successfully after", None, 0,
                    opts.max_loops)>>

Failures ==
    {"ERROR: Open game failed", "ERROR: Script execution failed",
     "ERROR: Loop failed"}

\* The run has left the loop procedure's body and is about to clean up.
UndisturbedRunDone(t) ==
    /\ threads[t].state = "alive"
    /\ threads[t].pc = "cleanup"
    /\ threads[t].opts.loop_delay = 0
    /\ ~threads[t].should_stop
    /\ ~HasEntry(threads[t].trace, Failures)

\* The calls of the main entry point (the open_game call carries number 0).
Calls(trace) == {i \in 1..Len(trace) : trace[i].kind = "call" /\ trace[i].i > 0}

RunsExactlyNLoops ==
    \A t \in ThreadIds :
       /\ Cardinality(Calls(threads[t].trace)) <= threads[t].opts.max_loops
       /\ UndisturbedRunDone(t)
            => threads[t].trace = ExpectedTrace(threads[t].script,
                                                threads[t].opts)

AskedLoopOptions ==
    {<<o.max_loops, o.loop_delay>> : o \in RequestOptions}

C10_StopSeenWithinOneSlice ==
    [][\A t \in ThreadIds :
         (/\ threads[t].state = "alive"
          /\ threads[t].pc = "sleep"
          /\ threads[t].should_stop
          /\ threads'[t] # threads[t])
            => threads'[t].pc # "sleep"]_vars

\* C11: in every state of the registry and for every device in it,
\* current_script is set exactly when the status is running: no sequence of
\* set_device_script, stop_device_script, set_device_status and device
\* refreshes leaves a device running without a script or available with one.
C11_ScriptIffRunning ==
    \A d \in RegistryIds :
       devices_file[d].present
         => (devices_file[d].current_script # None
               <=> devices_file[d].device_status = "running")

\* The live child processes of a device.
LiveWorkers(d) ==
    {p \in ProcIds : procs[p].state = "alive" /\ procs[p].dev = d}

\* C12: whatever the order of the start, stop and is_running calls for a
\* device, it never has more than one live worker, and the handle recorded
\* for the device is the handle of that worker.
C12_OneLiveWorkerPerDevice ==
    \A d \in DeviceIds :
       /\ Cardinality(LiveWorkers(d)) <= 1
       /\ \A p \in LiveWorkers(d) : running_scripts[d] = p

\* The step in which Executor.run starts the child process of a run.
WorkerLaunched(p) ==
    /\ procs[p].state = "queued"
    /\ procs'[p].state = "alive"

\* C13: the start of a run returns to its caller as soon as the worker is
\* launched and its handle recorded: it is not still inside the call,
\* waiting for the output of the worker to end.
C13_StartReturnsAtLaunch ==
    [][\A p \in ProcIds :
         WorkerLaunched(p)
           => /\ running_scripts'[procs[p].dev] = p
              /\ ~procs'[p].monitor]_vars

\* The events of the scenario run, in order.
ScenarioTrace ==
    <<Called("open_game", 0),
      LogEntry("Loop", None, 1, 2), Called("s1", 1),
      LogEntry("Waiting", None, 1, 0),
      LogEntry("Loop", None, 2, 2), Called("s1", 2),
      LogEntry("Script completed successfully after", None, 0, 2)>>

IsPrefix(s, t) == Len(s) <= Len(t) /\ s = SubSeq(t, 1, Len(s))

\* A live run with the options of the scenario that no stop has been
\* requested for and in which nothing has failed.
ScenarioRun(t) ==
    /\ threads[t].state = "alive"
    /\ threads[t].opts = ScenarioOptions
    /\ ~threads[t].should_stop
    /\ ~HasEntry(threads[t].trace, Failures)

SavesDevice(c, d) ==
    /\ callers[c].pc = "write"
    /\ callers'[c].pc # "write"
    /\ Head(callers[c].todo).id = d

\* C15: registry updates are atomic per device: the save of one device's
\* record, whatever runs at the same time for another device, leaves the
\* record of every other device as it is in the file, so that no update of
\* another device is lost or taken back to an older value.
C15_OtherRecordsKept ==
    [][\A c \in Callers, d \in RegistryIds :
         SavesDevice(c, d)
           => \A e \in RegistryIds \ {d} :
                 devices_file'[e] = devices_file[e]]_vars

\* The lines the worker of d has written with calls that have returned.
Written(d) == [i \in 1..callers[WorkerOf[d]].written |-> Message(i)]

\* C16: concurrent appends by the workers of different devices lose and
\* damage nothing: once the calls of both workers have returned, the log of
\* each device holds the lines its worker wrote, in the order it wrote them.
C16_NoLogEntryLost ==
    (\A c \in Callers : callers[c].pc = "idle")
       => \A d \in RegistryIds : logs_file[d] = Written(d)

\* The step in which a set_device_script call returns, and the record its
\* get_device found.
BindReturns(c) ==
    /\ callers'[c].op = "set_device_script"
    /\ callers'[c].pc = "idle"
    /\ callers'[c] # callers[c]

BindFound(c) ==
    IF callers[c].pc = "idle"
    THEN get_device(devices_file, callers'[c].dev)
    ELSE callers[c].device

\* C17: set_device_script fails with a not-found error for an unknown
\* device and with a conflict error for a device that is bound, and leaves
\* the registry as it is in both cases; only a known, unbound device is set
\* running with the script.
C17_BindRefusesUnknownAndBound ==
    [][\A c \in Callers :
         BindReturns(c)
           => /\ ~BindFound(c).present
                   => /\ callers'[c].ret = "NotFoundError"
                      /\ devices_file' = devices_file
              /\ (BindFound(c).present /\ BindFound(c).current_script # None)
                   => /\ callers'[c].ret = "ConflictError"
                      /\ devices_file' = devices_file
              /\ (BindFound(c).present /\ BindFound(c).current_script = None)
                   => /\ devices_file'[callers'[c].dev].device_status = "running"
                      /\ devices_file'[callers'[c].dev].current_script
                            \in RegistryScripts]_vars

\* The step in which a stop_device_script call returns, no other caller
\* having saved the file since the call began.
UnbindReturns(c) ==
    /\ callers'[c].op = "stop_device_script"
    /\ callers'[c].pc = "idle"
    /\ callers'[c] # callers[c]
    /\ callers[c].pc = "write"
          => /\ callers[c].loaded = devices_file
             /\ callers[c].device = get_device(devices_file, callers[c].dev)

Bound(rec) == rec.present /\ rec.current_script # None

RefreshSaves(c) ==
    /\ callers[c].op = "get_all_devices"
    /\ callers[c].pc = "write"
    /\ callers'[c].pc # "write"

\* C19: the refresh of the connected devices never alters a binding: every
\* save it makes leaves each known device with the script and the options
\* it has in the file, and a bound device with its status, whatever start
\* or stop ran since the refresh began; it neither writes back a binding
\* that was cleared nor erases one that was set.
C19_RefreshKeepsBinding ==
    [][\A c \in Callers :
         RefreshSaves(c)
           => \A d \in RegistryIds :
                 devices_file[d].present
                   => /\ devices_file'[d].current_script
                            = devices_file[d].current_script
                      /\ devices_file'[d].game_options
                            = devices_file[d].game_options
                      /\ Bound(devices_file[d])
                           => devices_file'[d].device_status
                                = devices_file[d].device_status]_vars

\* What the caller asked for is within the limits of GameOptions.
InRange(body) ==
    /\ Given(body, "max_loops")
         => body.max_loops >= 1 /\ body.max_loops <= 1000
    /\ Given(body, "loop_delay") => body.loop_delay >= 0
    /\ Given(body, "game_load_wait") => body.game_load_wait >= 0

WithinLimits(opts) ==
    /\ opts.max_loops >= 1 /\ opts.max_loops <= 1000
    /\ opts.loop_delay >= 0
    /\ opts.game_load_wait >= 0

\* The start request binds the device in this step.
Binds(d) ==
    /\ devices[d].current_script = None
    /\ devices'[d].current_script # None

BoundFor(body) ==
    [NewGameOptions(body) EXCEPT !.max_loops = HardcodedMaxLoops,
                                 !.loop_delay = HardcodedLoopDelay]

AskedOnce ==
    [open_game |-> TRUE, max_loops |-> 1, loop_delay |-> 0,
     game_load_wait |-> 4]

NoCall(trace) ==
    \A i \in 1..Len(trace) :
       trace[i].kind = "call" => trace[i].script = "open_game"

\* C21: with open_game set, when the open_game entry point raises or
\* returns a failure result the worker logs the error and goes straight to
\* its end, with the entry point of the main script never invoked.
C21_OpenGameFailureEndsRun ==
    [][\A t \in ThreadIds, outcome \in {"fail", "raise"} :
         OpenGameReturns(t, outcome)
           => /\ threads'[t].pc = "cleanup"
              /\ Len(threads'[t].trace) = Len(threads[t].trace) + 1
              /\ NoCall(threads'[t].trace)]_vars

Completed == {"Script completed successfully after"}

\* The number the completion line of a trace carries.
CompletedCount(trace) ==
    LET i == CHOOSE i \in 1..Len(trace) : trace[i].kind \in Completed
    IN  trace[i].n

\* C22: the last message of a run tells how it ended.  When the worker has
\* left the loop procedure, a completion line is in its log only if no
\* failure is, and carries the number of iterations that were executed; a
\* run that ended on a stop request, with neither a failure nor a
\* completion, has logged that it was stopped.
C22_TerminalMessageTrue ==
    \A t \in ThreadIds :
       (threads[t].state = "alive" /\ threads[t].pc = "cleanup")
         => LET trace == threads[t].trace
            IN  /\ HasEntry(trace, Failures) => ~HasEntry(trace, Completed)
                /\ HasEntry(trace, Completed)
                     => CompletedCount(trace) = Cardinality(Calls(trace))
                /\ ~HasEntry(trace, Failures \cup Completed)
                     => HasEntry(trace, {"stopped"})

\* The step makes the worker t invoke the entry point of its script.
Invokes(t) ==
    /\ threads[t].state = "alive"
    /\ threads'[t].state = "alive"
    /\ Cardinality(Calls(threads'[t].trace))
         > Cardinality(Calls(threads[t].trace))

\* C23 as stated: once the stop flag of a run is set, its worker begins no
\* invocation of the entry point and writes no iteration line.
C23_NoCallOnceStopped ==
    [][\A t \in ThreadIds :
         (threads[t].state = "alive" /\ threads[t].should_stop)
           => /\ ~Invokes(t)
              /\ threads'[t].state = "alive"
                   => ~HasEntry(SubSeq(threads'[t].trace,
                                       Len(threads[t].trace) + 1,
                                       Len(threads'[t].trace)),
                                {"Loop"})]_vars

\* C23 amended: a test at the head of an iteration that finds the stop
\* flag set leaves the loop with nothing written; the entry point is
\* invoked only by an iteration whose test has passed, and a test passes
\* only with the flag not set.  Once the flag is set the worker therefore
\* begins at most one invocation, that of the iteration whose test had
\* passed before.
C23_OneCallAtMostOnceStopped ==
    [][\A t \in ThreadIds :
         /\ (LoopCheck(t) /\ threads[t].should_stop)
              => /\ threads'[t].pc = "after"
                 /\ threads'[t].trace = threads[t].trace
         /\ Invokes(t) => threads[t].pc = "iteration"
         /\ (threads'[t].pc = "iteration" /\ threads[t].pc # "iteration")
              => /\ threads[t].pc = "loop"
                 /\ ~threads[t].should_stop
         /\ (/\ threads[t].state = "alive" /\ threads[t].should_stop
             /\ threads'[t].state = "alive")
              => threads'[t].should_stop]_vars

\* A stopped run has left its loop with iterations left: one call was
\* made, the second never began.
C23_Witness ==
    \E t \in ThreadIds :
       /\ threads[t].state = "alive"
       /\ threads[t].should_stop
       /\ threads[t].pc = "after"
       /\ ~HasEntry(threads[t].trace, Failures)
       /\ Cardinality(Calls(threads[t].trace)) = 1
       /\ threads[t].loop_index = 1
       /\ threads[t].opts.max_loops = 2

LoopFailures == {"ERROR: Script execution failed", "ERROR: Loop failed"}

\* C24: when the entry point raises or returns a failure in an iteration,
\* the error is logged and the loop is left at that iteration, which is
\* iteration k with exactly k invocations made; a run with a failed
\* iteration in its log never invokes the entry point again.
C24_FailureEndsLoop ==
    [][\A t \in ThreadIds :
         /\ \A outcome \in {"fail", "raise"} :
              ScriptReturns(t, outcome)
                => /\ threads'[t].pc = "after"
                   /\ threads'[t].trace
                        = Append(threads[t].trace, FailureEntry(t, outcome))
                   /\ Cardinality(Calls(threads'[t].trace))
                        = threads[t].loop_index + 1
         /\ HasEntry(threads[t].trace, LoopFailures) => ~Invokes(t)]_vars

\* The first iteration of a run of two loops has failed: one invocation
\* was made and the loop is left with an iteration remaining.
C24_Witness ==
    \E t \in ThreadIds :
       /\ threads[t].state = "alive"
       /\ threads[t].pc = "after"
       /\ threads[t].opts.max_loops = 2
       /\ ~threads[t].should_stop
       /\ HasEntry(threads[t].trace, LoopFailures)
       /\ threads[t].loop_index = 0
       /\ Cardinality(Calls(threads[t].trace)) = 1

EarlyEnd == [success |-> TRUE, continue_loop |-> FALSE]

\* C25: when an iteration's result says success = true and continue_loop =
\* false, the loop is left after that iteration: no delay is announced or
\* slept, the entry point is not invoked again, and nothing is logged as
\* an error.
C25_ContinueLoopFalseEndsLoop ==
    [][\A t \in ThreadIds :
         MainReturns(t, EarlyEnd)
           => /\ threads'[t].pc = "after"
              /\ ~HasEntry(SubSeq(threads'[t].trace,
                                  Len(threads[t].trace) + 1,
                                  Len(threads'[t].trace)),
                           Failures \cup {"Waiting"})]_vars

\* The last step of stop_script for an execution that was running when it
\* was called.
StopEnds ==
    /\ stop_call.pc = "del"
    /\ stop_call'.pc = "idle"

\* C26: stop_script of a running execution, once the process has ended,
\* returns True with the execution removed from running_scripts by this
\* very del and the device available, wherever the log-capture thread is
\* in its own cleanup; it never raises.
C26_StopReturnsTrue ==
    [][StopEnds
         => /\ stop_call'.ret = "true"
            /\ executions[stop_call.id].listed
            /\ ~executions'[stop_call.id].listed]_vars

\* An execution of the device is in running_scripts with its process alive.
Executing ==
    \E e \in ExecutionIds :
       executions[e].listed /\ executions[e].state = "alive"

\* C28: while an execution of the device is listed with its process alive,
\* no cycle of the discovery thread leaves the device available, so that
\* start_script cannot start a second script on it: at most one execution
\* of the device is alive at a time.
C28_DiscoveryKeepsBusy ==
    [][/\ \A seen \in BOOLEAN :
            (Discover(seen) /\ Executing)
              => manager_device'.status # "available"
       /\ Cardinality({e \in ExecutionIds : executions'[e].state = "alive"})
            <= 1]_vars

\* The thread t sends a stream_data chunk in this step.
Emits(t) == StreamEmit(t) /\ ~stream_should_stop(active_streams)

\* C27: a stream thread whose session was stopped sends no stream_data
\* after stop_stream_for_session has returned, also when the session has
\* started a new stream since, and a thread that ends deletes no entry of
\* active_streams but its own.
C27_StoppedStreamIsSilent ==
    [][\A t \in StreamIds :
         /\ Emits(t) => ~stream_threads[t].stopped
         /\ (StreamFinally(t) /\ active_streams.present)
              => active_streams.thread = t]_vars

Last(seq) == seq[Len(seq)]

AllAdbError(seq) == \A i \in 1..Len(seq) : seq[i] = "AdbError"

\* C29: a call of a wrapped function invokes it at most max_attempts times
\* and ends with a value, never with an exception.  A returned result is
\* that of the first attempt that did not raise, which is the last
\* invocation; when every attempt raised IOError or AdbError return_value
\* is returned after exactly max_attempts invocations, with one sleep of
\* delay * 2^attempt after each attempt but the last; any other exception
\* is the last invocation and gives return_value.
C29_RetryAtMostMaxAttempts ==
    /\ Len(retry.invoked) <= retry.max_attempts
    /\ AllAdbError(SubSeq(retry.invoked, 1, Len(retry.invoked) - 1))
    /\ retry.pc = "sleep" => Len(retry.slept) = Len(retry.invoked) - 1
    /\ retry.pc = "call" => Len(retry.slept) = Len(retry.invoked)
    /\ retry.pc = "returned"
         => /\ retry.result \in {"value", retry.return_value}
            /\ retry.result = "value"
                 <=> (retry.invoked # <<>> /\ Last(retry.invoked) = "value")
            /\ (retry.invoked # <<>> /\ AllAdbError(retry.invoked))
                 => Len(retry.invoked) = retry.max_attempts
            /\ retry.invoked # <<>>
                 => /\ Len(retry.slept) = Len(retry.invoked) - 1
                    /\ \A i \in 1..Len(retry.slept) :
                          retry.slept[i] = retry.delay * pow2(i - 1)

\* Every one of three attempts raised AdbError: return_value is returned
\* after three invocations and two sleeps.
C29_Witness ==
    /\ retry.pc = "returned"
    /\ retry.max_attempts = 3
    /\ retry.invoked = <<"AdbError", "AdbError", "AdbError">>
    /\ Len(retry.slept) = 2
    /\ retry.result = retry.return_value

\* The step in which write_script_log saves the logs for device d.
SavesLog(c, d) == SaveDeviceLogs(c) /\ callers[c].dev = d

\* C30: a log write for a device leaves its stored log with the entries it
\* had followed by the new one, cut to the 1000 most recent, and leaves the
\* stored log of every other device as it is.
C30_LogWriteKeepsRecent ==
    [][\A c \in Callers, d \in RegistryIds :
         SavesLog(c, d)
           => /\ Len(logs_file'[d]) <= LogLimit
              /\ logs_file'[d]
                   = keep_last(Append(logs_file[d],
                                      Message(callers[c].written + 1)),
                               LogLimit)
              /\ \A e \in RegistryIds \ {d} :
                    logs_file'[e] = logs_file[e]]_vars
====
